---------------------------- MODULE Spec2Model ----------------------------
(***************************************************************************)
(* Model of the brightness synchronisation server (brightness_server.py)   *)
(* and its tray front end (brightness_tray.py).                            *)
(*                                                                         *)
(* Python floats are IEEE-754 binary64 values.  The calibration and the    *)
(* smooth transition truncate float results to integers, so the model      *)
(* carries out every float operation exactly as the interpreter does:      *)
(* the exact result rounded to 53 significant bits, ties to even.          *)
(* Mantissas do not fit TLC's integers and are kept as little-endian       *)
(* sequences of 15-bit limbs.                                              *)
(***************************************************************************)
EXTENDS Integers, Sequences, FiniteSets, TLC

(***************************************************************************)
(* Natural numbers of any size: little-endian limb sequences, no leading   *)
(* zero limb, zero is << >>.                                               *)
(***************************************************************************)
LimbBits == 15
LimbBase == 32768
MantBits == 53

Max2(a, b) == IF a >= b THEN a ELSE b
Min2(a, b) == IF a <= b THEN a ELSE b

Limb(a, i) == IF i >= 1 /\ i <= Len(a) THEN a[i] ELSE 0

RECURSIVE BNorm(_)
BNorm(a) ==
    IF a = << >> THEN a
    ELSE IF a[Len(a)] = 0 THEN BNorm(SubSeq(a, 1, Len(a) - 1))
    ELSE a

RECURSIVE BFromNat(_)
BFromNat(n) ==
    IF n = 0 THEN << >> ELSE <<n % LimbBase>> \o BFromNat(n \div LimbBase)

RECURSIVE BToNatFrom(_, _)
BToNatFrom(a, i) ==
    IF i > Len(a) THEN 0 ELSE a[i] + LimbBase * BToNatFrom(a, i + 1)

BToNat(a) == BToNatFrom(a, 1)

RECURSIVE BAddFrom(_, _, _, _)
BAddFrom(a, b, i, c) ==
    IF i > Len(a) /\ i > Len(b)
    THEN (IF c = 0 THEN << >> ELSE <<c>>)
    ELSE LET s == Limb(a, i) + Limb(b, i) + c
         IN  <<s % LimbBase>> \o BAddFrom(a, b, i + 1, s \div LimbBase)

BAdd(a, b) == BAddFrom(a, b, 1, 0)

RECURSIVE BSubFrom(_, _, _, _)
BSubFrom(a, b, i, c) ==
    IF i > Len(a) THEN << >>
    ELSE LET s == a[i] - Limb(b, i) - c
         IN  IF s < 0
             THEN <<s + LimbBase>> \o BSubFrom(a, b, i + 1, 1)
             ELSE <<s>> \o BSubFrom(a, b, i + 1, 0)

\* a - b for a >= b
BSub(a, b) == BNorm(BSubFrom(a, b, 1, 0))

RECURSIVE BCmpFrom(_, _, _)
BCmpFrom(a, b, i) ==
    IF i = 0 THEN 0
    ELSE IF a[i] < b[i] THEN -1
    ELSE IF a[i] > b[i] THEN 1
    ELSE BCmpFrom(a, b, i - 1)

\* -1, 0, 1 as a < b, a = b, a > b
BCmp(a, b) ==
    IF Len(a) < Len(b) THEN -1
    ELSE IF Len(a) > Len(b) THEN 1
    ELSE BCmpFrom(a, b, Len(a))

RECURSIVE BMulSmallFrom(_, _, _, _)
BMulSmallFrom(a, s, i, c) ==
    IF i > Len(a)
    THEN (IF c = 0 THEN << >> ELSE <<c>>)
    ELSE LET p == a[i] * s + c
         IN  <<p % LimbBase>> \o BMulSmallFrom(a, s, i + 1, p \div LimbBase)

\* a * s for 0 <= s < LimbBase
BMulSmall(a, s) == IF s = 0 THEN << >> ELSE BMulSmallFrom(a, s, 1, 0)

Zeros(n) == [i \in 1..n |-> 0]

RECURSIVE BMulFrom(_, _, _)
BMulFrom(a, b, i) ==
    IF i > Len(b) THEN << >>
    ELSE IF b[i] = 0 THEN BMulFrom(a, b, i + 1)
    ELSE BAdd(Zeros(i - 1) \o BMulSmall(a, b[i]), BMulFrom(a, b, i + 1))

BMul(a, b) == IF a = << >> THEN << >> ELSE BMulFrom(a, b, 1)

\* a * 2^n
BShl(a, n) ==
    IF a = << >> THEN a
    ELSE IF n % LimbBits = 0 THEN Zeros(n \div LimbBits) \o a
    ELSE Zeros(n \div LimbBits) \o BMulSmall(a, 2 ^ (n % LimbBits))

\* floor(a / 2^n)
BShr(a, n) ==
    LET d == n \div LimbBits
        k == n % LimbBits
        lo == 2 ^ k
        hi == 2 ^ (LimbBits - k)
    IN  IF d >= Len(a) THEN << >>
        ELSE BNorm([i \in 1..(Len(a) - d) |->
                       (a[i + d] \div lo) + (Limb(a, i + d + 1) % lo) * hi])

\* bit j of a, bit 0 the least significant
Bit(a, j) == (Limb(a, j \div LimbBits + 1) \div (2 ^ (j % LimbBits))) % 2

\* a mod 2^n = 0
LowZero(a, n) ==
    /\ \A i \in 1..Min2(n \div LimbBits, Len(a)) : a[i] = 0
    /\ Limb(a, n \div LimbBits + 1) % (2 ^ (n % LimbBits)) = 0

\* number of bits of a limb n, 0 <= n < LimbBase
NatBitLen(n) ==
    IF n >= 256
    THEN IF n >= 4096
         THEN (IF n >= 16384 THEN 15 ELSE IF n >= 8192 THEN 14 ELSE 13)
         ELSE (IF n >= 2048 THEN 12 ELSE IF n >= 1024 THEN 11
               ELSE IF n >= 512 THEN 10 ELSE 9)
    ELSE IF n >= 16
         THEN (IF n >= 128 THEN 8 ELSE IF n >= 64 THEN 7
               ELSE IF n >= 32 THEN 6 ELSE 5)
         ELSE (IF n >= 8 THEN 4 ELSE IF n >= 4 THEN 3
               ELSE IF n >= 2 THEN 2 ELSE n)

BitLen(a) ==
    IF a = << >> THEN 0
    ELSE (Len(a) - 1) * LimbBits + NatBitLen(a[Len(a)])

(***************************************************************************)
(* binary64 values: (-1)^neg * m * 2^e with m of exactly 53 bits, or zero. *)
(* The program's values stay far from the subnormal and overflow ranges.   *)
(***************************************************************************)
FZero == [neg |-> FALSE, m |-> << >>, e |-> 0]

IsZero(a) == a.m = << >>

\* The double nearest to (-1)^neg * (M + s) * 2^e, where 0 <= s < 1 and
\* sticky says s > 0 (then M has more than 54 bits); ties go to even.
FRound(neg, M, e, sticky) ==
    LET L == BitLen(M)
    IN  IF L = 0 THEN FZero
        ELSE IF L <= MantBits
        THEN [neg |-> neg, m |-> BShl(M, MantBits - L), e |-> e - (MantBits - L)]
        ELSE LET sh == L - MantBits
                 q == BShr(M, sh)
                 half == Bit(M, sh - 1) = 1
                 rest == sticky \/ ~LowZero(M, sh - 1)
                 up == half /\ (rest \/ Bit(q, 0) = 1)
                 r == IF up THEN BAdd(q, <<1>>) ELSE q
             IN  IF BitLen(r) > MantBits
                 THEN [neg |-> neg, m |-> BShr(r, 1), e |-> e + sh + 1]
                 ELSE [neg |-> neg, m |-> r, e |-> e + sh]

\* float(n) for an int n
FromInt(n) ==
    IF n < 0 THEN FRound(TRUE, BFromNat(-n), 0, FALSE)
    ELSE FRound(FALSE, BFromNat(n), 0, FALSE)

FNeg(a) == IF IsZero(a) THEN a ELSE [a EXCEPT !.neg = ~a.neg]

\* a + b
FAdd(a, b) ==
    IF IsZero(a) THEN b
    ELSE IF IsZero(b) THEN a
    ELSE LET e == Min2(a.e, b.e)
             A == BShl(a.m, a.e - e)
             B == BShl(b.m, b.e - e)
             c == BCmp(A, B)
         IN  IF a.neg = b.neg THEN FRound(a.neg, BAdd(A, B), e, FALSE)
             ELSE IF c = 0 THEN FZero
             ELSE IF c > 0 THEN FRound(a.neg, BSub(A, B), e, FALSE)
             ELSE FRound(b.neg, BSub(B, A), e, FALSE)

\* a - b
FSub(a, b) == FAdd(a, FNeg(b))

\* a * b
FMul(a, b) ==
    IF IsZero(a) \/ IsZero(b) THEN FZero
    ELSE FRound(a.neg # b.neg, BMul(a.m, b.m), a.e + b.e, FALSE)

\* Restoring division on two-limb numbers (limbs of 30 bits, high limb first):
\* <<qh, ql, remainder is nonzero>> with q = floor(r * 2^n / d), for r < 2d.
WideBase == 1073741824

RECURSIVE DivBits(_, _, _, _, _, _, _)
DivBits(rh, rl, dh, dl, qh, ql, n) ==
    LET ge == rh > dh \/ (rh = dh /\ rl >= dl)
        borrow == IF rl < dl THEN 1 ELSE 0
        sh == IF ge THEN rh - dh - borrow ELSE rh
        sl == IF ge THEN rl - dl + borrow * WideBase ELSE rl
        q2 == 2 * ql + (IF ge THEN 1 ELSE 0)
        q1h == 2 * qh + q2 \div WideBase
        q1l == q2 % WideBase
    IN  IF n = 0 THEN <<q1h, q1l, sh # 0 \/ sl # 0>>
        ELSE IF q1h >= 0 /\ q1l >= 0
        THEN DivBits(2 * sh + (2 * sl) \div WideBase, (2 * sl) % WideBase,
                     dh, dl, q1h, q1l, n - 1)
        ELSE << >>

WideHi(a) == Limb(a, 3) + LimbBase * Limb(a, 4)
WideLo(a) == Limb(a, 1) + LimbBase * Limb(a, 2)

\* Short division by one limb t, from limb i down: <<quotient, remainder>>
RECURSIVE BDivSmallFrom(_, _, _, _)
BDivSmallFrom(a, t, i, rem) ==
    IF i = 0 THEN << << >>, rem >>
    ELSE LET cur == rem * LimbBase + a[i]
             rest == BDivSmallFrom(a, t, i - 1, cur % t)
         IN  <<Append(rest[1], cur \div t), rest[2]>>

\* number of trailing zero bits of a limb n > 0
RECURSIVE LimbTrailingZeros(_)
LimbTrailingZeros(n) == IF n % 2 = 1 THEN 0 ELSE 1 + LimbTrailingZeros(n \div 2)

\* number of trailing zero bits of a > 0
RECURSIVE TrailingZerosFrom(_, _)
TrailingZerosFrom(a, i) ==
    IF a[i] = 0 THEN LimbBits + TrailingZerosFrom(a, i + 1)
    ELSE LimbTrailingZeros(a[i])

\* a / b, b nonzero: the exact quotient rounded once.  A divisor whose odd part
\* fits one limb (an int such as 10 or 100) is divided out limb by limb.
FDiv(a, b) ==
    IF IsZero(a) THEN FZero
    ELSE LET tz == TrailingZerosFrom(b.m, 1)
             t == BShr(b.m, tz)
         IN  IF Len(t) = 1
             THEN LET n == BShl(a.m, LimbBits + 2)
                      qr == BDivSmallFrom(n, t[1], Len(n), 0)
                  IN  FRound(a.neg # b.neg, BNorm(qr[1]),
                             a.e - b.e - tz - (LimbBits + 2), qr[2] # 0)
             ELSE LET qr == DivBits(WideHi(a.m), WideLo(a.m),
                                    WideHi(b.m), WideLo(b.m), 0, 0, MantBits + 3)
                      q == BNorm(<<qr[2] % LimbBase, qr[2] \div LimbBase,
                                   qr[1] % LimbBase, qr[1] \div LimbBase>>)
                  IN  FRound(a.neg # b.neg, q, a.e - b.e - (MantBits + 3), qr[3])

\* -1, 0, 1 as a < b, a = b, a > b
FCmp(a, b) ==
    LET mag == IF a.e # b.e THEN (IF a.e > b.e THEN 1 ELSE -1) ELSE BCmp(a.m, b.m)
    IN  IF IsZero(a) THEN (IF IsZero(b) THEN 0 ELSE IF b.neg THEN 1 ELSE -1)
        ELSE IF IsZero(b) THEN (IF a.neg THEN -1 ELSE 1)
        ELSE IF a.neg # b.neg THEN (IF a.neg THEN -1 ELSE 1)
        ELSE IF a.neg THEN -mag ELSE mag

FLe(a, b) == FCmp(a, b) <= 0
FLt(a, b) == FCmp(a, b) < 0

\* int(a): truncation toward zero
FTrunc(a) ==
    IF IsZero(a) THEN 0
    ELSE LET n == IF a.e >= 0 THEN BToNat(BShl(a.m, a.e))
                  ELSE BToNat(BShr(a.m, -a.e))
         IN  IF a.neg THEN -n ELSE n

\* The decimal literal or JSON number n/d (d a power of ten): the nearest double
Dec(n, d) == FDiv(FromInt(n), FromInt(d))

(***************************************************************************)
(* CONFIG (brightness_server.py)                                           *)
(***************************************************************************)
iphone_max_nits == 625
laptop_max_nits == 300
min_brightness == 5
max_brightness == 95
transition_steps == 10

Curves == {"lut", "perceptual", "logarithmic", "linear"}

\* CONFIG['display_calibration']['calibration_lut'], its literals written in
\* hundredths: <<source, target>>
LutHundredths ==
    << <<0, 5>>, <<5, 10>>, <<10, 18>>, <<20, 32>>, <<30, 45>>, <<40, 58>>,
       <<50, 68>>, <<60, 75>>, <<70, 82>>, <<80, 88>>, <<90, 92>>, <<100, 95>> >>

calibration_lut ==
    [i \in 1..Len(LutHundredths) |->
        <<Dec(LutHundredths[i][1], 100), Dec(LutHundredths[i][2], 100)>>]

F0 == FromInt(0)
F1 == FromInt(1)
F100 == FromInt(100)
FMinBrightness == FromInt(min_brightness)
FMaxBrightness == FromInt(max_brightness)

\* cal['laptop_max_nits'] / cal['iphone_max_nits']
nits_ratio == FDiv(FromInt(laptop_max_nits), FromInt(iphone_max_nits))

\* Python's min(a, b) and max(a, b): the first argument unless the second is
\* strictly smaller (larger)
PyMin(a, b) == IF FLt(b, a) THEN b ELSE a
PyMax(a, b) == IF FLt(a, b) THEN b ELSE a

(***************************************************************************)
(* BrightnessController.calibrate_brightness                               *)
(***************************************************************************)
\* mutant: the ratio measured from the segment's upper end
RECURSIVE lut_interpolate_inverted(_, _, _)
lut_interpolate_inverted(lut, x, i) ==
    IF i > Len(lut) - 1
    THEN (IF FLe(x, lut[1][1]) THEN lut[1][2] ELSE lut[Len(lut)][2])
    ELSE LET x1 == lut[i][1]
             y1 == lut[i][2]
             x2 == lut[i + 1][1]
             y2 == lut[i + 1][2]
             ratio == IF FCmp(x2, x1) # 0
                      THEN FDiv(FSub(x2, x), FSub(x2, x1))
                      ELSE F0
         IN  IF FLe(x1, x) /\ FLe(x, x2)
             THEN FAdd(y1, FMul(ratio, FSub(y2, y1)))
             ELSE lut_interpolate_inverted(lut, x, i + 1)

\* mutant: no interpolation, the segment's upper target
RECURSIVE lut_interpolate_step(_, _, _)
lut_interpolate_step(lut, x, i) ==
    IF i > Len(lut) - 1
    THEN (IF FLe(x, lut[1][1]) THEN lut[1][2] ELSE lut[Len(lut)][2])
    ELSE IF FLe(lut[i][1], x) /\ FLe(x, lut[i + 1][1])
    THEN lut[i + 1][2]
    ELSE lut_interpolate_step(lut, x, i + 1)

\* the table lookup: the first segment that brackets x, interpolated; the
\* loop's else branch when no segment does
RECURSIVE lut_interpolate(_, _, _)
lut_interpolate(lut, x, i) ==
    IF i > Len(lut) - 1
    THEN (IF FLe(x, lut[1][1]) THEN lut[1][2] ELSE lut[Len(lut)][2])
    ELSE LET x1 == lut[i][1]
             y1 == lut[i][2]
             x2 == lut[i + 1][1]
             y2 == lut[i + 1][2]
             ratio == IF FCmp(x2, x1) # 0
                      THEN FDiv(FSub(x, x1), FSub(x2, x1))
                      ELSE F0
         IN  IF FLe(x1, x) /\ FLe(x, x2)
             THEN FAdd(y1, FMul(ratio, FSub(y2, y1)))
             ELSE lut_interpolate(lut, x, i + 1)

\* mutant: the ceiling is not applied
clamp_result_no_ceiling(laptop_brightness) ==
    FTrunc(PyMax(FMinBrightness, FMul(laptop_brightness, F100)))

\* result = laptop_brightness * 100, clamped to [min_brightness, max_brightness],
\* truncated by int()
clamp_result(laptop_brightness) ==
    LET result == FMul(laptop_brightness, F100)
    IN  FTrunc(PyMax(FMinBrightness, PyMin(FMaxBrightness, result)))

\* ret is the value the branch's last libm call returns (pow in the perceptual
\* branch, log10 in the logarithmic one); the other branches make none.
laptop_brightness_of(mode, x, ret) ==
    IF mode = "lut" THEN lut_interpolate(calibration_lut, x, 1)
    ELSE IF mode = "perceptual" THEN ret
    ELSE IF mode = "logarithmic"
    THEN (IF FLt(F0, x) THEN FMul(ret, nits_ratio) ELSE F0)
    ELSE FMul(x, FDiv(F1, nits_ratio))

calibrate_brightness(mode, arg, ret) ==
    LET x == PyMax(F0, PyMin(F1, arg))
    IN  clamp_result(laptop_brightness_of(mode, x, ret))

(***************************************************************************)
(* State                                                                   *)
(***************************************************************************)
VARIABLES
    \* POST /brightness with a 'brightness' value
    curve,              \* CONFIG['display_calibration']['brightness_curve']
    request,            \* the JSON value of data['brightness'] being served
    iphone_brightness,  \* the argument the handler passes to calibrate_brightness
    libm,               \* index of the value the libm call of this request returns
    brightness_value,   \* the handler's brightness_value
    status,             \* 0 while no request is served, else the HTTP status
    \* get_time_based_brightness
    now,                \* datetime.now().time() in ticks since midnight, -1: no call
    period,             \* the window that matched, "default" when none did
    time_value,         \* the brightness returned
    \* BrightnessController and the display
    os,                 \* the brightness the OS display holds
    current_brightness, \* controller.current_brightness
    th,                 \* per thread: the set_brightness call it is running
    last_write,         \* the most recent write to the OS display: who and what
    assigned_by,        \* the thread that assigned current_brightness last
    calls,              \* set_brightness calls started
    externals           \* brightness changes made outside the controller

calVars == <<curve, request, iphone_brightness, libm, brightness_value, status>>
timeVars == <<now, period, time_value>>
ctlVars == <<os, current_brightness, th, last_write, assigned_by, calls, externals>>

vars == <<calVars, timeVars, ctlVars>>

(***************************************************************************)
(* POST /brightness, the 'brightness' branch (set_brightness handler)      *)
(***************************************************************************)
PctOver == 3
FracGrid == 20
LibmGrid == 2

NoRequest == [kind |-> "none", n |-> 0]

\* JSON numbers a client sends: ints around 0..100 and decimals n/FracGrid
\* around [0, 1] (a numeric string converts to the same float)
JsonNumbers ==
    [kind : {"int"}, n : (0 - PctOver)..(100 + PctOver)]
        \cup [kind : {"frac"}, n : (0 - 2)..(FracGrid + 2)]

json_float(v) == IF v.kind = "int" THEN FromInt(v.n) ELSE Dec(v.n, FracGrid)

\* lines 241-244: a value <= 1 is taken as a fraction, a larger one as a percentage
handler_arg(brightness) ==
    IF FLe(brightness, F1) THEN brightness ELSE FDiv(brightness, F100)

\* a function held as an explicit table of its values
Table(f) == f @@ <<>>

\* values pow and log10 return on [0, 1]: samples j/LibmGrid of their range
LibmSamples == Table([j \in 0..LibmGrid |-> Dec(j, LibmGrid)])

LibmIndex(c) == IF c \in {"perceptual", "logarithmic"} THEN 0..LibmGrid ELSE {0}

\* the handler's argument and result for every request, computed once
ArgTable == Table([v \in JsonNumbers |-> handler_arg(json_float(v))])

CalTable ==
    Table([c \in Curves |-> Table([v \in JsonNumbers |-> Table([j \in LibmIndex(c) |->
        calibrate_brightness(c, ArgTable[v], LibmSamples[j])])])])

PostBrightness(v, j) ==
    /\ status = 0
    /\ request' = v
    /\ iphone_brightness' = ArgTable[v]
    /\ libm' = j
    /\ brightness_value' = CalTable[curve][v][j]
    /\ status' = 200
    /\ UNCHANGED <<curve, timeVars, ctlVars>>

\* a string that float() rejects: 400, no brightness is set
PostBrightnessInvalid ==
    /\ status = 0
    /\ request' = [kind |-> "badstr", n |-> 0]
    /\ status' = 400
    /\ UNCHANGED <<curve, iphone_brightness, libm, brightness_value>>
    /\ UNCHANGED <<timeVars, ctlVars>>

Respond ==
    /\ status # 0
    /\ request' = NoRequest
    /\ iphone_brightness' = F0
    /\ libm' = 0
    /\ brightness_value' = 0
    /\ status' = 0
    /\ UNCHANGED <<curve, timeVars, ctlVars>>

IdleCal ==
    /\ request = NoRequest
    /\ iphone_brightness = F0
    /\ libm = 0
    /\ brightness_value = 0
    /\ status = 0

(***************************************************************************)
(* BrightnessController.get_time_based_brightness                          *)
(***************************************************************************)
TicksPerMinute == 2

DayTicks == 24 * 60 * TicksPerMinute

\* CONFIG['brightness_ranges']
brightness_ranges ==
    [very_dark |-> [min |-> 5, max |-> 15],
     dark |-> [min |-> 15, max |-> 30],
     dim |-> [min |-> 30, max |-> 50],
     normal |-> [min |-> 50, max |-> 70],
     bright |-> [min |-> 70, max |-> 90],
     very_bright |-> [min |-> 90, max |-> 100]]

\* CONFIG['time_based_brightness'] in the dict's order; 'HH:MM' as its digits
time_based_brightness ==
    << [period |-> "night", start |-> <<2, 2, 0, 0>>, end |-> <<0, 6, 0, 0>>,
        level |-> "very_dark"],
       [period |-> "evening", start |-> <<1, 8, 0, 0>>, end |-> <<2, 2, 0, 0>>,
        level |-> "dim"],
       [period |-> "morning", start |-> <<0, 6, 0, 0>>, end |-> <<0, 9, 0, 0>>,
        level |-> "normal"],
       [period |-> "day", start |-> <<0, 9, 0, 0>>, end |-> <<1, 8, 0, 0>>,
        level |-> "bright"] >>

\* dt_time.fromisoformat('HH:MM'), in ticks since midnight
fromisoformat(d) == ((d[1] * 10 + d[2]) * 60 + d[3] * 10 + d[4]) * TicksPerMinute

get_brightness_for_level(level) ==
    IF level \in DOMAIN brightness_ranges
    THEN (brightness_ranges[level].min + brightness_ranges[level].max) \div 2
    ELSE 50

\* the loop over the windows of cfg from the i-th on, then the default
RECURSIVE time_based_from(_, _, _)
time_based_from(cfg, t, i) ==
    IF i > Len(cfg)
    THEN [period |-> "default", value |-> get_brightness_for_level("normal")]
    ELSE LET config == cfg[i]
             start_time == fromisoformat(config.start)
             end_time == fromisoformat(config.end)
             hit == [period |-> config.period,
                     value |-> get_brightness_for_level(config.level)]
         IN  IF config.period = "night"
             THEN (IF t >= start_time \/ t <= end_time THEN hit
                   ELSE time_based_from(cfg, t, i + 1))
             ELSE (IF start_time <= t /\ t <= end_time THEN hit
                   ELSE time_based_from(cfg, t, i + 1))

\* mutant: the windows taken in sorted order (day, evening, morning, night)
get_time_based_brightness_sorted(t) ==
    time_based_from(<<time_based_brightness[4], time_based_brightness[2],
                      time_based_brightness[3], time_based_brightness[1]>>, t, 1)

get_time_based_brightness(t) == time_based_from(time_based_brightness, t, 1)

GetTimeBased(t) ==
    /\ now = -1
    /\ now' = t
    /\ period' = get_time_based_brightness(t).period
    /\ time_value' = get_time_based_brightness(t).value
    /\ UNCHANGED <<calVars, ctlVars>>

ReturnTimeBased ==
    /\ now # -1
    /\ now' = -1
    /\ period' = "none"
    /\ time_value' = 0
    /\ UNCHANGED <<calVars, ctlVars>>

IdleTime ==
    /\ now = -1
    /\ period = "none"
    /\ time_value = 0

(***************************************************************************)
(* BrightnessController.set_brightness and _smooth_brightness_change, run  *)
(* by the Flask request threads (threaded=True) and the tray callbacks     *)
(***************************************************************************)
MaxCalls == 2
MaxExternal == 1
TargetOver == 3
MenuItems == 2

Threads == {"http", "tray"}

\* the tray menu's quick settings (create_menu)
manual_values == <<10, 25, 50, 75, 100>>

MenuTargets == {manual_values[k] : k \in 1..Min2(MenuItems, Len(manual_values))}

\* targets a caller hands to set_brightness: in range and out of range
Targets(t) ==
    IF t = "tray" THEN MenuTargets
    ELSE {0 - TargetOver, manual_values[1], 100 + TargetOver}

\* brightness the display can be set to outside the controller
ExternalValues == {1, manual_values[1], 100}

\* mutant: the target is used as given
clamp_target_missing(target) == target

\* line 96: target = max(1, min(100, target))
clamp_target(target) == Max2(1, Min2(100, target))

\* sbc.get_brightness() answers with the display's value, a list holding it
\* ("value"), or raises ("error"); lines 86-93
get_current_brightness(outcome, v) == IF outcome = "value" THEN v ELSE 50

ReadOutcomes == {"value", "error"}

\* line 119
step_size(current, target) ==
    FDiv(FromInt(target - current), FromInt(transition_steps))

\* lines 122-123, i as in range(steps)
new_brightness(current, step, i) ==
    Max2(1, Min2(100, FTrunc(FAdd(FromInt(current), FMul(step, FromInt(i + 1))))))

\* the intermediate values of every transition from 1..100 to a clamped
\* target, computed once
PlanTargets ==
    {clamp_target(g) : g \in UNION {Targets(t) : t \in Threads}}

SmoothPlan ==
    Table([c \in 1..100 |-> Table([g \in PlanTargets |->
        LET step == step_size(c, g)
        IN  Table([i \in 0..(transition_steps - 1) |-> new_brightness(c, step, i)])])])

SmoothValue(c, g, i) ==
    IF c \in DOMAIN SmoothPlan /\ g \in PlanTargets /\ i \in 0..(transition_steps - 1)
    THEN SmoothPlan[c][g][i]
    ELSE new_brightness(c, step_size(c, g), i)

Running == {"read", "loop", "final", "direct", "assign"}

IdleThread ==
    [pc |-> "idle", requested |-> 0, target |-> 0, smooth |-> FALSE, current |-> 0, i |-> 0,
     pre |-> 0, overlapped |-> FALSE, wrote |-> FALSE, lastw |-> 0,
     read_failed |-> FALSE, write_failed |-> FALSE, assigned |-> FALSE]

NoWrite == [by |-> "none", value |-> 0]

\* set_brightness(target, smooth) is entered: lines 95-101
Call(t, target, smooth) ==
    /\ th[t].pc = "idle"
    /\ calls' = calls + 1
    /\ th' = [u \in Threads |->
                IF u = t
                THEN [IdleThread EXCEPT
                        !.pc = IF smooth THEN "read" ELSE "direct",
                        !.requested = target,
                        !.target = clamp_target(target),
                        !.smooth = smooth,
                        !.pre = current_brightness,
                        !.overlapped = \E w \in Threads \ {t} : th[w].pc \in Running]
                ELSE IF th[u].pc \in Running
                THEN [th[u] EXCEPT !.overlapped = TRUE]
                ELSE th[u]]
    /\ UNCHANGED <<os, current_brightness, last_write, assigned_by, externals>>
    /\ UNCHANGED <<calVars, timeVars>>

\* mutant: the early return taken whenever current >= target
ReadCurrentGe(t) ==
    /\ th[t].pc = "read"
    /\ \E outcome \in ReadOutcomes :
         LET current == get_current_brightness(outcome, os)
         IN  th' = [th EXCEPT ![t] =
                      [@ EXCEPT !.current = current,
                                !.read_failed = outcome = "error",
                                !.pc = IF current >= th[t].target
                                       THEN "returned" ELSE "loop"]]
    /\ UNCHANGED <<os, current_brightness, last_write, assigned_by, calls, externals>>
    /\ UNCHANGED <<calVars, timeVars>>

\* lines 112-119: the OS read, the early return, the step size
ReadCurrent(t) ==
    /\ th[t].pc = "read"
    /\ \E outcome \in ReadOutcomes :
         LET current == get_current_brightness(outcome, os)
         IN  th' = [th EXCEPT ![t] =
                      [@ EXCEPT !.current = current,
                                !.read_failed = outcome = "error",
                                !.pc = IF current = th[t].target
                                       THEN "returned" ELSE "loop"]]
    /\ UNCHANGED <<os, current_brightness, last_write, assigned_by, calls, externals>>
    /\ UNCHANGED <<calVars, timeVars>>

\* sbc.set_brightness(value) by thread t, going on at pc next: it sets the
\* display, or raises and set_brightness re-raises (lines 107-109)
OsWrite(t, value, next) ==
    \/ /\ os' = value
       /\ last_write' = [by |-> t, value |-> value]
       /\ th' = [th EXCEPT ![t] =
                   [@ EXCEPT !.wrote = TRUE, !.lastw = value,
                             !.i = IF th[t].pc = "loop" THEN @ + 1 ELSE @,
                             !.pc = next]]
    \/ /\ th' = [th EXCEPT ![t] = [@ EXCEPT !.write_failed = TRUE, !.pc = "raised"]]
       /\ UNCHANGED <<os, last_write>>

\* lines 121-126: one iteration of the loop
LoopWrite(t) ==
    /\ th[t].pc = "loop"
    /\ th[t].i < transition_steps
    /\ OsWrite(t, SmoothValue(th[t].current, th[t].target, th[t].i),
               IF th[t].i + 1 = transition_steps THEN "final" ELSE "loop")
    /\ UNCHANGED <<current_brightness, assigned_by, calls, externals>>
    /\ UNCHANGED <<calVars, timeVars>>

\* line 128
FinalWrite(t) ==
    /\ th[t].pc = "final"
    /\ OsWrite(t, th[t].target, "assign")
    /\ UNCHANGED <<current_brightness, assigned_by, calls, externals>>
    /\ UNCHANGED <<calVars, timeVars>>

\* mutant: current_brightness assigned before the write
DirectWriteAssignFirst(t) ==
    /\ th[t].pc = "direct"
    /\ current_brightness' = th[t].target
    /\ OsWrite(t, th[t].target, "assign")
    /\ UNCHANGED <<assigned_by, calls, externals>>
    /\ UNCHANGED <<calVars, timeVars>>

\* line 102
DirectWrite(t) ==
    /\ th[t].pc = "direct"
    /\ OsWrite(t, th[t].target, "assign")
    /\ UNCHANGED <<current_brightness, assigned_by, calls, externals>>
    /\ UNCHANGED <<calVars, timeVars>>

\* mutant: current_brightness refreshed from the display
AssignFromDisplay(t) ==
    /\ th[t].pc = "assign"
    /\ current_brightness' = os
    /\ assigned_by' = t
    /\ th' = [th EXCEPT ![t] = [@ EXCEPT !.assigned = TRUE, !.pc = "returned"]]
    /\ UNCHANGED <<os, last_write, calls, externals>>
    /\ UNCHANGED <<calVars, timeVars>>

\* lines 103 and 129: self.current_brightness = target
Assign(t) ==
    /\ th[t].pc = "assign"
    /\ current_brightness' = th[t].target
    /\ assigned_by' = t
    /\ th' = [th EXCEPT ![t] = [@ EXCEPT !.assigned = TRUE, !.pc = "returned"]]
    /\ UNCHANGED <<os, last_write, calls, externals>>
    /\ UNCHANGED <<calVars, timeVars>>

\* the caller goes on after the call returned or raised
Return(t) ==
    /\ th[t].pc \in {"returned", "raised"}
    /\ th' = [th EXCEPT ![t] = IdleThread]
    /\ UNCHANGED <<os, current_brightness, last_write, assigned_by, calls, externals>>
    /\ UNCHANGED <<calVars, timeVars>>

\* the user or the OS changes the display brightness
ExternalChange(v) ==
    /\ externals < MaxExternal
    /\ v # os
    /\ os' = v
    /\ externals' = externals + 1
    /\ UNCHANGED <<current_brightness, th, last_write, assigned_by, calls>>
    /\ UNCHANGED <<calVars, timeVars>>

ThreadStep(t) ==
    \/ ReadCurrent(t)
    \/ LoopWrite(t)
    \/ FinalWrite(t)
    \/ DirectWrite(t)
    \/ Assign(t)
    \/ Return(t)

\* BrightnessController.__init__ has read the display (lines 81-82)
InitCtl ==
    /\ os \in ExternalValues
    /\ \E outcome \in ReadOutcomes :
         current_brightness = get_current_brightness(outcome, os)
    /\ th = [t \in Threads |-> IdleThread]
    /\ last_write = NoWrite
    /\ assigned_by = "none"
    /\ calls = 0
    /\ externals = 0

IdleCtl ==
    /\ os = 50
    /\ current_brightness = 50
    /\ th = [t \in Threads |-> IdleThread]
    /\ last_write = NoWrite
    /\ assigned_by = "none"
    /\ calls = 0
    /\ externals = 0

(***************************************************************************)
(* Specifications                                                          *)
(***************************************************************************)
\* a caller's arguments: the tray passes no smooth flag (default True), a
\* request passes data.get('smooth', True)
SmoothFlags(t) == IF t = "tray" THEN {TRUE} ELSE BOOLEAN

\* the controller and the display, set_brightness calls one after the other
Init == InitCtl /\ curve = "lut" /\ IdleCal /\ IdleTime

SequentialCall(t, g, smooth) ==
    /\ calls < MaxCalls
    /\ \A u \in Threads : th[u].pc = "idle"
    /\ Call(t, g, smooth)

Next ==
    \/ \E t \in Threads : \E g \in Targets(t) : \E smooth \in SmoothFlags(t) :
         SequentialCall(t, g, smooth)
    \/ \E t \in Threads : ReadCurrent(t)
    \/ \E t \in Threads : LoopWrite(t)
    \/ \E t \in Threads : FinalWrite(t)
    \/ \E t \in Threads : DirectWrite(t)
    \/ \E t \in Threads : Assign(t)
    \/ \E t \in Threads : Return(t)
    \/ \E v \in ExternalValues : ExternalChange(v)

Spec == Init /\ [][Next]_vars

\* two threads, one set_brightness call each, their steps interleaved
OverlapCall(t, g, smooth) ==
    /\ calls < Cardinality(Threads)
    /\ Call(t, g, smooth)

NextOverlap ==
    \/ \E t \in Threads : \E g \in Targets(t) : \E smooth \in SmoothFlags(t) :
         OverlapCall(t, g, smooth)
    \/ \E t \in Threads : ReadCurrent(t)
    \/ \E t \in Threads : LoopWrite(t)
    \/ \E t \in Threads : FinalWrite(t)
    \/ \E t \in Threads : DirectWrite(t)
    \/ \E t \in Threads : Assign(t)

SpecOverlap == Init /\ [][NextOverlap]_vars

\* calibration behind POST /brightness
InitCal == curve \in Curves /\ IdleCal /\ IdleTime /\ IdleCtl

NextCal ==
    \/ \E v \in JsonNumbers : \E j \in LibmIndex(curve) : PostBrightness(v, j)
    \/ PostBrightnessInvalid
    \/ Respond

SpecCal == InitCal /\ [][NextCal]_vars

\* the time-based level
InitTime == curve = "lut" /\ IdleCal /\ IdleTime /\ IdleCtl

NextTime ==
    \/ \E t \in 0..(DayTicks - 1) : GetTimeBased(t)
    \/ ReturnTimeBased

SpecTime == InitTime /\ [][NextTime]_vars

(***************************************************************************)
(* Claims                                                                  *)
(***************************************************************************)
InUnit(a) == FLe(F0, a) /\ FLe(a, F1)

ClampPercent(p) == Max2(min_brightness, Min2(max_brightness, p))

\* C1: whatever the input (also outside [0,1]) and the curve mode,
\* calibrate_brightness returns an integer p with
\* min_brightness <= p <= max_brightness, 5 <= p <= 95 as shipped.
C1_CalibrationInRange ==
    status = 200 =>
        /\ brightness_value \in min_brightness..max_brightness
        /\ brightness_value \in 5..95

\* a linear-mode result above the ceiling (208) was clamped to 95
C1_Witness ==
    /\ status = 200
    /\ curve = "linear"
    /\ request = [kind |-> "int", n |-> 100 + PctOver]
    /\ brightness_value = max_brightness

\* C4: in lookup-table mode calibrate_brightness is monotonically
\* non-decreasing: x1 <= x2 in [0,1] gives
\* calibrate_brightness(x1) <= calibrate_brightness(x2), across segment
\* boundaries and after the truncation and the clamp.
C4_LutMonotone ==
    (status = 200 /\ curve = "lut" /\ InUnit(iphone_brightness)) =>
        \A v \in JsonNumbers :
            InUnit(ArgTable[v]) =>
                /\ FLe(iphone_brightness, ArgTable[v])
                      => brightness_value <= CalTable["lut"][v][0]
                /\ FLe(ArgTable[v], iphone_brightness)
                      => CalTable["lut"][v][0] <= brightness_value

\* x = 0.4, a segment boundary where the float result 57.99... truncates to 57
C4_Witness ==
    /\ status = 200
    /\ curve = "lut"
    /\ request = [kind |-> "int", n |-> 40]
    /\ brightness_value = 57

\* C7: in lookup-table mode calibrate_brightness(0.0) is the first breakpoint's
\* target and calibrate_brightness(1.0) the last breakpoint's target, as a
\* percentage clamped to [min_brightness, max_brightness]: 5 and 95.
C7_LutEndpoints ==
    (status = 200 /\ curve = "lut") =>
        /\ FCmp(iphone_brightness, F0) = 0 =>
              /\ brightness_value = ClampPercent(LutHundredths[1][2])
              /\ brightness_value = 5
        /\ FCmp(iphone_brightness, F1) = 0 =>
              /\ brightness_value = ClampPercent(LutHundredths[Len(LutHundredths)][2])
              /\ brightness_value = 95

C7_Witness ==
    /\ status = 200
    /\ curve = "lut"
    /\ request = [kind |-> "frac", n |-> FracGrid]
    /\ FCmp(iphone_brightness, F1) = 0
    /\ brightness_value = 95

\* C8: POST /brightness with a phone brightness percentage b in 0..100 applies
\* calibrate_brightness(b/100).
C8_PercentIsCalibrated ==
    (status = 200 /\ request.kind = "int" /\ request.n \in 0..100) =>
        brightness_value =
            calibrate_brightness(curve, Dec(request.n, 100), LibmSamples[libm])

Ticks(h, m) == (h * 60 + m) * TicksPerMinute

\* C5: get_time_based_brightness returns the midpoint (min+max) div 2 of the
\* level of the first window, in the order night, evening, morning, day, that
\* contains t; night contains t iff t >= 22:00 or t <= 06:00, any other window
\* iff start <= t <= end; 23:00 gives very_dark's 10, 12:00 bright's 80, and
\* the 'normal' default is returned only if no window contains t.
C5_TimeBased ==
    now # -1 =>
        LET night == now >= Ticks(22, 0) \/ now <= Ticks(6, 0)
            evening == Ticks(18, 0) <= now /\ now <= Ticks(22, 0)
            morning == Ticks(6, 0) <= now /\ now <= Ticks(9, 0)
            day == Ticks(9, 0) <= now /\ now <= Ticks(18, 0)
        IN  /\ night => period = "night" /\ time_value = (5 + 15) \div 2
            /\ ~night /\ evening => period = "evening" /\ time_value = (30 + 50) \div 2
            /\ ~night /\ ~evening /\ morning =>
                  period = "morning" /\ time_value = (50 + 70) \div 2
            /\ ~night /\ ~evening /\ ~morning /\ day =>
                  period = "day" /\ time_value = (70 + 90) \div 2
            /\ period = "default" => ~(night \/ evening \/ morning \/ day)
            /\ now = Ticks(23, 0) => period = "night" /\ time_value = 10
            /\ now = Ticks(12, 0) => period = "day" /\ time_value = 80

\* 18:00 lies in the evening and the day window; evening comes first
C5_Witness ==
    /\ now = Ticks(18, 0)
    /\ period = "evening"
    /\ time_value = 40

\* C2: every value written to the OS display by set_brightness, direct or
\* smooth (each intermediate and the final write), is an integer in [1,100],
\* whatever the requested target and the starting brightness in [1,100].
C2_WritesInRange ==
    /\ os \in 1..100
    /\ last_write.by # "none" => last_write.value \in 1..100
    /\ \A t \in Threads : th[t].wrote => th[t].lastw \in 1..100

\* a smooth transition to an out-of-range target has made all its writes
C2_Witness ==
    \E t \in Threads :
        /\ th[t].requested > 100
        /\ th[t].smooth
        /\ th[t].pc = "returned"
        /\ th[t].i = transition_steps
        /\ last_write = [by |-> t, value |-> 100]

\* C3, as stated: every execution of _smooth_brightness_change(target) that
\* does not fail ends with a last write to the display that is exactly target,
\* also when current = target.
C3_LastWriteIsTarget ==
    \A t \in Threads :
        (th[t].smooth /\ th[t].pc = "returned") =>
            th[t].wrote /\ th[t].lastw = th[t].target

\* C3, amended: a smooth transition that does not fail ends after at most
\* transition_steps + 1 writes; when the brightness it read differs from the
\* target, its last write is exactly target; when they are equal it returns
\* without writing.
C3_LastWriteIsTargetUnlessEqual ==
    \A t \in Threads :
        /\ (th[t].smooth /\ th[t].pc = "returned") =>
              IF th[t].current # th[t].target
              THEN th[t].wrote /\ th[t].lastw = th[t].target
                   /\ th[t].i = transition_steps
              ELSE ~th[t].wrote
        /\ th[t].pc \in Running =>
              th[t].i <= transition_steps /\ ENABLED ThreadStep(t)

C3_Witness ==
    \E t \in Threads :
        /\ th[t].smooth
        /\ th[t].pc = "returned"
        /\ th[t].current # th[t].target
        /\ th[t].i = transition_steps
        /\ th[t].lastw = th[t].target

\* C6: a failing OS read inside get_current_brightness does not propagate and
\* yields 50; a failing OS write inside set_brightness (direct, intermediate
\* or final) is re-raised, and current_brightness keeps the value it had
\* before the call.
C6_Failures ==
    \A t \in Threads :
        /\ th[t].read_failed =>
              /\ th[t].current = 50
              /\ th[t].pc = "raised" => th[t].write_failed
        /\ th[t].write_failed =>
              /\ th[t].pc = "raised"
              /\ current_brightness = th[t].pre
        /\ th[t].pc = "raised" => current_brightness = th[t].pre

\* a direct write failed while current_brightness differed from the target
C6_Witness ==
    \E t \in Threads :
        /\ th[t].write_failed
        /\ ~th[t].smooth
        /\ th[t].pc = "raised"
        /\ current_brightness # th[t].target

\* C9: after non-overlapping set_brightness calls, with changes of the display
\* made outside the controller in between, each call that returns without
\* raising leaves current_brightness equal to its target clamped to [1,100].
C9_CacheIsTarget ==
    \A t \in Threads :
        th[t].pc = "returned" => current_brightness = th[t].target

BothReturned ==
    \A t \in Threads : th[t].pc = "returned" /\ th[t].overlapped

\* C10, as stated: when two set_brightness calls overlap, once both have
\* returned current_brightness equals the brightness last written to the
\* display.
C10_CacheIsLastWrite ==
    (BothReturned /\ last_write.by # "none") =>
        current_brightness = last_write.value

\* C10, amended: when two set_brightness calls overlap, once both have returned
\* current_brightness is the clamped target of the call that assigned it last,
\* and the display holds the target of the call that wrote it last; the two
\* may be different calls.
C10_CacheIsLastAssignment ==
    BothReturned =>
        /\ assigned_by # "none" => current_brightness = th[assigned_by].target
        /\ last_write.by # "none" => last_write.value = th[last_write.by].target

\* both calls wrote and assigned, and the cache is not the last write
C10_Witness ==
    /\ BothReturned
    /\ \A t \in Threads : th[t].assigned /\ th[t].wrote
    /\ current_brightness # last_write.value
    /\ current_brightness = th[assigned_by].target

=============================================================================
